---------------------------- MODULE Spec2Model ----------------------------
(***************************************************************************)
(* tinynet: a listener/connection layer over the unisockets primitives.    *)
(*                                                                         *)
(* Strings are modelled as sequences of one-character strings, so that     *)
(* strings.Split and strconv.Atoi are computed character by character.     *)
(* Two specifications share the variables:                                 *)
(*   SpecAddr  the address pipeline: text -> ResolveTCPAddr -> SockaddrIn  *)
(*             -> decoded TCPAddr, over a bounded set of address texts;    *)
(*   Spec      the lifecycle of listeners and connections over a provider  *)
(*             whose every call may succeed or fail.                       *)
(***************************************************************************)
EXTENDS Integers, Sequences, FiniteSets, TLC

(***************************************************************************)
(* Bounds of the model.                                                    *)
(***************************************************************************)
\* most dot-separated parts of the host text that SpecAddr draws
MaxOctets == 5

\* the handles the provider can issue: 1..MaxFd, then Socket and Accept fail
MaxFd == 3

\* most Listener and Conn values handed out, together
MaxInstances == 2

\* longest buffer passed to Read or Write
MaxLen == 1

\* most Close calls followed, over all instances
MaxCloses == 2

\* most Accept calls that SpecAccept follows on its Listener
MaxAccepts == 3

\* longest buffer that SpecRead passes to Read
MaxBuf == 2

(***************************************************************************)
(* State.                                                                  *)
(***************************************************************************)
VARIABLES
    input,      \* SpecAddr: the address text under conversion
    stage,      \* SpecAddr: "text", "resolved", "encoded", "decoded"; "idle" in Spec
    resolved,   \* SpecAddr: the result of ResolveTCPAddr(input)
    sockaddr,   \* SpecAddr: the SockaddrIn built from the resolved address
    decoded,    \* SpecAddr: the TCPAddr decoded from sockaddr
    nextFd,     \* provider: the handle the next Socket or Accept issues
    sock,       \* provider: the state of every handle, "free" when never issued
    shutdowns,  \* provider: the number of Shutdown calls received per handle
    listeners,  \* the net.Listener values handed to the caller, in order
    conns,      \* the net.Conn values handed to the caller, in order
    origin,     \* history: how each element of conns came to be
    closeCalls, \* history: Close calls that returned, per handle of the instance called
    ret,        \* the last call of the layer: [op, who, arg, prov, res]
    panicked,   \* the process has panicked
    deadlines,  \* history: the Conns (indices) given a deadline that has passed
    buf,        \* SpecRead: the caller's buffer b, as the last Read left it
    wire,       \* SpecRead: the bytes the provider's recv delivered to the last Read
    mainpc,     \* SpecEcho: where main is: "listen", "accept", "exited"
    mainConn,   \* SpecEcho: main's variable conn (index in conns, 0 before the first)
    handlers,   \* SpecEcho: the goroutines started, in order: [pc, innerConn, observed]
    users       \* SpecEcho history: per Conn, the goroutines that called its methods

(***************************************************************************)
(* Text helpers: strings.Split, strconv.Atoi, byte().                      *)
(***************************************************************************)
Digits == <<"0", "1", "2", "3", "4", "5", "6", "7", "8", "9">>

IsDigit(ch) == \E k \in 1..Len(Digits) : Digits[k] = ch

DigitVal(ch) == (CHOOSE k \in 1..Len(Digits) : Digits[k] = ch) - 1

\* index of the first occurrence of ch in s, 0 when there is none
RECURSIVE IndexFrom(_, _, _)
IndexFrom(s, ch, i) ==
    IF i > Len(s) THEN 0
    ELSE IF s[i] = ch THEN i
    ELSE IndexFrom(s, ch, i + 1)

\* strings.Split(s, sep) for a one-character separator: always at least one
\* element; Split("", sep) is one empty string
RECURSIVE Split(_, _)
Split(s, sep) ==
    LET i == IndexFrom(s, sep, 1)
    IN  IF i = 0 THEN <<s>>
        ELSE <<SubSeq(s, 1, i - 1)>> \o Split(SubSeq(s, i + 1, Len(s)), sep)

\* the digit loop of strconv.Atoi's fast path: n = n*10 + ch, syntax error
\* on the first character that is no digit
RECURSIVE AtoiDigits(_, _, _)
AtoiDigits(s, i, n) ==
    IF i > Len(s) THEN [ok |-> TRUE, val |-> n]
    ELSE IF ~IsDigit(s[i]) THEN [ok |-> FALSE, val |-> 0]
    ELSE AtoiDigits(s, i + 1, n * 10 + DigitVal(s[i]))

\* strconv.Atoi on texts shorter than 19 characters: an optional sign, then
\* at least one digit
Atoi(s) ==
    IF Len(s) = 0 THEN [ok |-> FALSE, val |-> 0]
    ELSE IF s[1] = "-" \/ s[1] = "+"
    THEN IF Len(s) < 2 THEN [ok |-> FALSE, val |-> 0]
         ELSE LET r == AtoiDigits(s, 2, 0)
              IN  IF r.ok /\ s[1] = "-" THEN [ok |-> TRUE, val |-> 0 - r.val]
                  ELSE r
    ELSE AtoiDigits(s, 1, 0)

\* Go's byte(x) of an int: the low 8 bits
Byte(x) == x % 256

\* Go's uint16(x) of an int: the low 16 bits
Uint16(x) == x % 65536

(***************************************************************************)
(* Values.                                                                 *)
(***************************************************************************)
\* error values; NoError is Go's nil error
NoError == "nil"
ErrParseIP == "could not parse IP"
ErrParsePort == "could not parse port"
ErrDisconnected == "client disconnected"

\* a nil *TCPAddr / nil net.Addr
NilAddr == [isNil |-> TRUE]

\* type TCPAddr struct
TCPAddr(stringAddr, ip, port) ==
    [isNil |-> FALSE, stringAddr |-> stringAddr, IP |-> ip, Port |-> port, Zone |-> <<>>]

\* func (t *TCPAddr) String() string
String(t) == t.stringAddr

(***************************************************************************)
(* ResolveTCPAddr.  The result is [outcome, err, addr]: outcome "return"   *)
(* with the two Go results, or "panic" when the function does not return   *)
(* (an index out of range).                                                *)
(***************************************************************************)
ResolvePanic == [outcome |-> "panic", err |-> NoError, addr |-> NilAddr]

ResolveError(e) == [outcome |-> "return", err |-> e, addr |-> NilAddr]

\* ParseIP with the bytes stored in reverse order
RECURSIVE ParseIPReversed(_, _, _)
ParseIPReversed(hostParts, i, ip) ==
    IF i > Len(hostParts) THEN [outcome |-> "ok", ip |-> ip]
    ELSE LET innerPart == Atoi(hostParts[i])
         IN  IF ~innerPart.ok THEN [outcome |-> "err", ip |-> ip]
             ELSE IF i > Len(ip) THEN [outcome |-> "panic", ip |-> ip]
             ELSE ParseIPReversed(hostParts, i + 1,
                                  [ip EXCEPT ![Len(ip) + 1 - i] = Byte(innerPart.val)])

\* the loop over strings.Split(parts[0], "."): Atoi of the part first, then
\* the store ip[i] = byte(innerPart), which is out of range from the fifth
\* part on (hostParts is 1-based here, ip is 4 bytes)
RECURSIVE ParseIP(_, _, _)
ParseIP(hostParts, i, ip) ==
    IF i > Len(hostParts) THEN [outcome |-> "ok", ip |-> ip]
    ELSE LET innerPart == Atoi(hostParts[i])
         IN  IF ~innerPart.ok THEN [outcome |-> "err", ip |-> ip]
             ELSE IF i > Len(ip) THEN [outcome |-> "panic", ip |-> ip]
             ELSE ParseIP(hostParts, i + 1, [ip EXCEPT ![i] = Byte(innerPart.val)])

ResolveTCPAddr(address) ==
    LET parts == Split(address, ":")
        host == ParseIP(Split(parts[1], "."), 1, <<0, 0, 0, 0>>)
    IN  IF host.outcome = "err" THEN ResolveError(ErrParseIP)
        ELSE IF host.outcome = "panic" THEN ResolvePanic
        ELSE IF Len(parts) < 2 THEN ResolvePanic
        ELSE LET port == Atoi(parts[2])
             IN  IF ~port.ok THEN ResolveError(ErrParsePort)
                 ELSE [outcome |-> "return", err |-> NoError,
                       addr |-> TCPAddr(address, host.ip, port.val)]

\* LADDR of the example server, "127.0.0.1:1234"
ExampleAddress ==
    <<"1", "2", "7", ".", "0", ".", "0", ".", "1", ":", "1", "2", "3", "4">>

\* "x:1", which does not parse
BadAddress == <<"x", ":", "1">>

\* "127.0.0.1", which has no port
NoPortAddress == <<"1", "2", "7", ".", "0", ".", "0", ".", "1">>

\* the addresses the callers of Listen and Dial pass
CallAddresses == {ExampleAddress, BadAddress, NoPortAddress}

\* ResolveTCPAddr is a function of its argument alone: its results on the
\* callers' addresses, computed once
ResolvedCalls == [a \in CallAddresses |-> ResolveTCPAddr(a)]

\* the call ResolveTCPAddr(network, address) made by Listen and by Dial
CallResolveTCPAddr(address) ==
    IF address \in CallAddresses THEN ResolvedCalls[address]
    ELSE ResolveTCPAddr(address)

(***************************************************************************)
(* The binary socket address.                                              *)
(***************************************************************************)
\* unisockets.Htons on the provider's little-endian host: the two bytes of
\* a uint16 swapped
Htons(v) == (v % 256) * 256 + (v \div 256)

\* A uint32 is kept as two 16-bit halves, value = lo + hi * 65536 (the
\* checker's integers are 32-bit signed and cannot hold 255 << 24).
\* binary.LittleEndian.Uint32 of a 4-byte slice: b[0] is the lowest byte
LittleEndianUint32(b) == [lo |-> b[1] + b[2] * 256, hi |-> b[3] + b[4] * 256]

\* x >> 8 on a uint32
ShiftRight8(x) == [lo |-> (x.lo \div 256) + (x.hi % 256) * 256, hi |-> x.hi \div 256]

\* byte(x) of a uint32: the low 8 bits
ByteOfUint32(x) == x.lo % 256

\* the unisockets.SockaddrIn literal of ListenTCP and DialTCP
SockaddrIn(addr) ==
    [SinFamily |-> "PF_INET",
     SinPort |-> Htons(Uint16(addr.Port)),
     SAddr |-> LittleEndianUint32(addr.IP)]

\* the raddr literal of AcceptTCP: the client address the provider filled
\* in, its bytes by shifts of 0, 8, 16 and 24 bits, its port as int(SinPort)
PeerAddr(clientAddress) ==
    TCPAddr(<<>>,
            <<ByteOfUint32(clientAddress.SAddr),
              ByteOfUint32(ShiftRight8(clientAddress.SAddr)),
              ByteOfUint32(ShiftRight8(ShiftRight8(clientAddress.SAddr))),
              ByteOfUint32(ShiftRight8(ShiftRight8(ShiftRight8(clientAddress.SAddr))))>>,
            clientAddress.SinPort)

(***************************************************************************)
(* The provider's calls, as the layer issues them, and its error values.   *)
(***************************************************************************)
\* the backlog that ListenTCP passes to unisockets.Listen
Backlog == 5

ErrSocket == "socket failed"
ErrBind == "bind failed"
ErrListen == "listen failed"
ErrAccept == "accept failed"
ErrConnect == "connect failed"
ErrSend == "send failed"
ErrRecv == "recv failed"
ErrShutdown == "shutdown failed"

CallSocket == [op |-> "Socket", family |-> "PF_INET", type |-> "SOCK_STREAM"]
CallBind(fd, sa) == [op |-> "Bind", fd |-> fd, addr |-> sa]
CallListen(fd, backlog) == [op |-> "Listen", fd |-> fd, backlog |-> backlog]
CallAccept(fd) == [op |-> "Accept", fd |-> fd]
CallConnect(fd, sa) == [op |-> "Connect", fd |-> fd, addr |-> sa]
CallSend(fd, len) == [op |-> "Send", fd |-> fd, len |-> len]
CallRecv(fd, len) == [op |-> "Recv", fd |-> fd, len |-> len]
CallShutdown(fd, how) == [op |-> "Shutdown", fd |-> fd, how |-> how]

(***************************************************************************)
(* Listener and connection values.  dyn is the dynamic type of the         *)
(* net.Listener / net.Conn interface value handed to the caller; isNil     *)
(* tells a nil pointer inside a non-nil interface.  The zero value of a    *)
(* struct has fd 0 and nil addresses.                                      *)
(***************************************************************************)
\* the nil interface value (no Listener, no Conn)
NoValue == [dyn |-> "nil", isNil |-> TRUE]

\* TCPListener{}
TCPListenerZero == [dyn |-> "TCPListener", isNil |-> FALSE, fd |-> 0, addr |-> NilAddr]

\* (*TCPListener)(nil)
TCPListenerNilPtr == [dyn |-> "*TCPListener", isNil |-> TRUE, fd |-> 0, addr |-> NilAddr]

\* &TCPListener{fd: fd, addr: addr}
TCPListenerPtr(fd, addr) == [dyn |-> "*TCPListener", isNil |-> FALSE, fd |-> fd, addr |-> addr]

\* TCPConn{}
TCPConnZero ==
    [dyn |-> "TCPConn", isNil |-> FALSE, fd |-> 0, laddr |-> NilAddr, raddr |-> NilAddr]

\* (*TCPConn)(nil)
TCPConnNilPtr ==
    [dyn |-> "*TCPConn", isNil |-> TRUE, fd |-> 0, laddr |-> NilAddr, raddr |-> NilAddr]

\* &TCPConn{fd: fd, laddr: laddr, raddr: raddr}
TCPConnPtr(fd, laddr, raddr) ==
    [dyn |-> "*TCPConn", isNil |-> FALSE, fd |-> fd, laddr |-> laddr, raddr |-> raddr]

\* *conn: the TCPConn value that Dial copies out of DialTCP's pointer
Deref(conn) == [conn EXCEPT !.dyn = "TCPConn"]

(***************************************************************************)
(* The layer's functions.  Each takes the outcomes the provider chooses    *)
(* (the handle it would issue, the error of each primitive, byte counts)   *)
(* and gives [outcome, val, n, err, calls]: outcome "return" with the Go   *)
(* results, or "panic"; calls are the provider calls made, in order.       *)
(***************************************************************************)
Return(val, n, err, calls) ==
    [outcome |-> "return", val |-> val, n |-> n, err |-> err, calls |-> calls]

Panic(calls) ==
    [outcome |-> "panic", val |-> NoValue, n |-> 0, err |-> NoError, calls |-> calls]

\* ListenTCP that goes on to listen after a failed bind
ListenTCPKeepsGoing(laddr, fd, sockErr, bindErr, listenErr) ==
    LET serverAddress == SockaddrIn(laddr)
    IN  IF sockErr # NoError
        THEN Return(TCPListenerNilPtr, 0, sockErr, <<CallSocket>>)
        ELSE IF listenErr # NoError \/ bindErr # NoError
        THEN Return(TCPListenerNilPtr, 0,
                    IF listenErr # NoError THEN listenErr ELSE bindErr,
                    <<CallSocket, CallBind(fd, serverAddress), CallListen(fd, Backlog)>>)
        ELSE Return(TCPListenerPtr(fd, laddr), 0, NoError,
                    <<CallSocket, CallBind(fd, serverAddress), CallListen(fd, Backlog)>>)

ListenTCP(laddr, fd, sockErr, bindErr, listenErr) ==
    LET serverAddress == SockaddrIn(laddr)
    IN  IF sockErr # NoError
        THEN Return(TCPListenerNilPtr, 0, sockErr, <<CallSocket>>)
        ELSE IF bindErr # NoError
        THEN Return(TCPListenerNilPtr, 0, bindErr,
                    <<CallSocket, CallBind(fd, serverAddress)>>)
        ELSE IF listenErr # NoError
        THEN Return(TCPListenerNilPtr, 0, listenErr,
                    <<CallSocket, CallBind(fd, serverAddress), CallListen(fd, Backlog)>>)
        ELSE Return(TCPListenerPtr(fd, laddr), 0, NoError,
                    <<CallSocket, CallBind(fd, serverAddress), CallListen(fd, Backlog)>>)

\* Listen returns ListenTCP's pointer, nil or not, as a net.Listener
Listen(address, fd, sockErr, bindErr, listenErr) ==
    LET laddr == CallResolveTCPAddr(address)
    IN  IF laddr.outcome = "panic" THEN Panic(<<>>)
        ELSE IF laddr.err # NoError THEN Return(TCPListenerZero, 0, laddr.err, <<>>)
        ELSE ListenTCP(laddr.addr, fd, sockErr, bindErr, listenErr)

\* Close that treats a provider error of a repeated shutdown as fatal
TCPListenerClosePanicsOnError(t, shutErr) ==
    IF t.isNil THEN Panic(<<>>)
    ELSE IF closeCalls[t.fd] > 0 /\ shutErr # NoError
    THEN Panic(<<CallShutdown(t.fd, "SHUT_RDWR")>>)
    ELSE Return(NoValue, 0, shutErr, <<CallShutdown(t.fd, "SHUT_RDWR")>>)

\* func (t TCPListener) Close(); a value method called through a nil pointer
\* panics
TCPListenerClose(t, shutErr) ==
    IF t.isNil THEN Panic(<<>>)
    ELSE Return(NoValue, 0, shutErr, <<CallShutdown(t.fd, "SHUT_RDWR")>>)

\* func (t TCPListener) Addr()
TCPListenerAddr(t) ==
    IF t.isNil THEN Panic(<<>>)
    ELSE Return(t.addr, 0, NoError, <<>>)

\* the type assertion l.addr.(*TCPAddr) panics on a nil interface
AcceptTCP(l, clientSocket, accErr, clientAddress) ==
    IF accErr # NoError
    THEN Return(TCPConnNilPtr, 0, accErr, <<CallAccept(l.fd)>>)
    ELSE IF l.addr.isNil THEN Panic(<<CallAccept(l.fd)>>)
    ELSE Return(TCPConnPtr(clientSocket,
                           TCPAddr(<<>>, l.addr.IP, l.addr.Port),
                           PeerAddr(clientAddress)),
                0, NoError, <<CallAccept(l.fd)>>)

\* Accept that wraps the Listener's own handle in the new Conn
AcceptOnListenerFd(l, clientSocket, accErr, clientAddress) ==
    IF l.isNil THEN Panic(<<>>)
    ELSE AcceptTCP(l, l.fd, accErr, clientAddress)

\* func (l TCPListener) Accept(): AcceptTCP's pointer, nil or not, as a net.Conn
Accept(l, clientSocket, accErr, clientAddress) ==
    IF l.isNil THEN Panic(<<>>)
    ELSE AcceptTCP(l, clientSocket, accErr, clientAddress)

DialTCP(laddr, raddr, fd, sockErr, connErr) ==
    LET serverAddress == SockaddrIn(raddr)
    IN  IF sockErr # NoError
        THEN Return(TCPConnNilPtr, 0, sockErr, <<CallSocket>>)
        ELSE IF connErr # NoError
        THEN Return(TCPConnNilPtr, 0, connErr,
                    <<CallSocket, CallConnect(fd, serverAddress)>>)
        ELSE Return(TCPConnPtr(fd, laddr, raddr), 0, NoError,
                    <<CallSocket, CallConnect(fd, serverAddress)>>)

Dial(address, fd, sockErr, connErr) ==
    LET raddr == CallResolveTCPAddr(address)
    IN  IF raddr.outcome = "panic" THEN Panic(<<>>)
        ELSE IF raddr.err # NoError THEN Return(TCPConnZero, 0, raddr.err, <<>>)
        ELSE LET conn == DialTCP(NilAddr, raddr.addr, fd, sockErr, connErr)
             IN  IF conn.err # NoError THEN Return(TCPConnZero, 0, conn.err, conn.calls)
                 ELSE Return(Deref(conn.val), 0, conn.err, conn.calls)

\* Read that passes Recv's error through when Recv reports 0 bytes
TCPConnReadPassErr(c, lenb, n, recvErr) ==
    IF c.isNil THEN Panic(<<>>)
    ELSE Return(NoValue, n, recvErr, <<CallRecv(c.fd, lenb)>>)

\* func (c TCPConn) Read(b): lenb is len(b), n and recvErr are Recv's results
TCPConnRead(c, lenb, n, recvErr) ==
    IF c.isNil THEN Panic(<<>>)
    ELSE IF n = 0 THEN Return(NoValue, n, ErrDisconnected, <<CallRecv(c.fd, lenb)>>)
    ELSE Return(NoValue, n, recvErr, <<CallRecv(c.fd, lenb)>>)

\* Write that shuts the handle down when Send reports 0 bytes
TCPConnWriteShutsDown(c, lenb, n, sendErr) ==
    IF c.isNil THEN Panic(<<>>)
    ELSE IF n = 0
    THEN Return(NoValue, n, ErrDisconnected,
                <<CallSend(c.fd, lenb), CallShutdown(c.fd, "SHUT_RDWR")>>)
    ELSE Return(NoValue, n, sendErr, <<CallSend(c.fd, lenb)>>)

\* Write that passes Send's results through without the 0-byte check
TCPConnWriteNoCheck(c, lenb, n, sendErr) ==
    IF c.isNil THEN Panic(<<>>)
    ELSE Return(NoValue, n, sendErr, <<CallSend(c.fd, lenb)>>)

\* func (c TCPConn) Write(b): lenb is len(b), n and sendErr are Send's results
TCPConnWrite(c, lenb, n, sendErr) ==
    IF c.isNil THEN Panic(<<>>)
    ELSE IF n = 0 THEN Return(NoValue, n, ErrDisconnected, <<CallSend(c.fd, lenb)>>)
    ELSE Return(NoValue, n, sendErr, <<CallSend(c.fd, lenb)>>)

\* Close that shuts the handle down on the first call only
TCPConnCloseOnce(c, shutErr) ==
    IF c.isNil THEN Panic(<<>>)
    ELSE IF closeCalls[c.fd] > 0 THEN Return(NoValue, 0, NoError, <<>>)
    ELSE Return(NoValue, 0, shutErr, <<CallShutdown(c.fd, "SHUT_RDWR")>>)

\* func (c TCPConn) Close()
TCPConnClose(c, shutErr) ==
    IF c.isNil THEN Panic(<<>>)
    ELSE Return(NoValue, 0, shutErr, <<CallShutdown(c.fd, "SHUT_RDWR")>>)

\* func (c TCPConn) LocalAddr()
LocalAddr(c) ==
    IF c.isNil THEN Panic(<<>>)
    ELSE Return(c.laddr, 0, NoError, <<>>)

\* func (c TCPConn) RemoteAddr(): returns c.laddr
RemoteAddr(c) ==
    IF c.isNil THEN Panic(<<>>)
    ELSE Return(c.laddr, 0, NoError, <<>>)

\* a deadline setter that refuses a time that has passed
ErrTimeout == "i/o timeout"

SetDeadlineRefusesPast(c, t) ==
    IF c.isNil THEN Panic(<<>>)
    ELSE Return(NoValue, 0, IF t = "past" THEN ErrTimeout ELSE NoError, <<>>)

\* func (c TCPConn) SetDeadline(t time.Time)
SetDeadline(c, t) ==
    IF c.isNil THEN Panic(<<>>)
    ELSE Return(NoValue, 0, NoError, <<>>)

\* func (c TCPConn) SetReadDeadline(t time.Time)
SetReadDeadline(c, t) ==
    IF c.isNil THEN Panic(<<>>)
    ELSE Return(NoValue, 0, NoError, <<>>)

\* func (c TCPConn) SetWriteDeadline(t time.Time)
SetWriteDeadline(c, t) ==
    IF c.isNil THEN Panic(<<>>)
    ELSE Return(NoValue, 0, NoError, <<>>)

(***************************************************************************)
(* The buffers of Read.  A byte slice is a sequence of bytes.              *)
(***************************************************************************)
\* make([]byte, len): len zero bytes
MakeBytes(len) == [i \in 1..len |-> 0]

\* unisockets.Recv(fd, &readMsg, len(b), 0) delivering data: the bytes are
\* written at the start of readMsg, the rest of readMsg is left as it is
RecvInto(readMsg, data) ==
    [i \in 1..Len(readMsg) |-> IF i <= Len(data) THEN data[i] ELSE readMsg[i]]

\* copy(dst, src): the first min(len(dst), len(src)) elements of src over dst
Copy(dst, src) ==
    [i \in 1..Len(dst) |-> IF i <= Len(src) THEN src[i] ELSE dst[i]]

\* Read that copies before it looks at the byte count
ReadBufferCopiesFirst(b, n, recvErr, data) ==
    Copy(b, RecvInto(MakeBytes(Len(b)), data))

\* the caller's buffer b after Read(b), Recv having reported n and recvErr
\* and delivered data
ReadBuffer(b, n, recvErr, data) ==
    LET readMsg == RecvInto(MakeBytes(Len(b)), data)
    IN  IF n = 0 THEN b ELSE Copy(b, readMsg)

addrVars == <<input, stage, resolved, sockaddr, decoded>>

lifeVars == <<nextFd, sock, shutdowns, listeners, conns, origin, closeCalls, ret, panicked>>

\* the variables that the calls of SpecAddr and Spec leave alone
srvVars == <<mainpc, mainConn, handlers, users>>

extVars == <<deadlines, buf, wire, mainpc, mainConn, handlers, users>>

vars == <<input, stage, resolved, sockaddr, decoded,
          nextFd, sock, shutdowns, listeners, conns, origin, closeCalls, ret, panicked,
          deadlines, buf, wire, mainpc, mainConn, handlers, users>>

NoSockaddr == [SinFamily |-> "none", SinPort |-> 0, SAddr |-> [lo |-> 0, hi |-> 0]]

\* the handles: 0 is the zero value of an fd field, the provider issues 1..MaxFd
Fds == 0..MaxFd

\* nothing has been called: no handle issued, no value handed out
InitLife ==
    /\ nextFd = 1
    /\ sock = [fd \in Fds |-> "free"]
    /\ shutdowns = [fd \in Fds |-> 0]
    /\ listeners = <<>>
    /\ conns = <<>>
    /\ origin = <<>>
    /\ closeCalls = [fd \in Fds |-> 0]
    /\ ret = [op |-> "none", who |-> 0, arg |-> [address |-> <<>>, len |-> 0],
              prov |-> [fd |-> 0, n |-> 0, err |-> NoError],
              res |-> Return(NoValue, 0, NoError, <<>>)]
    /\ panicked = FALSE
    /\ deadlines = {}
    /\ wire = <<>>
    /\ mainpc = "listen"
    /\ mainConn = 0
    /\ handlers = <<>>
    /\ users = <<>>

(***************************************************************************)
(* SpecAddr: the inputs.                                                   *)
(***************************************************************************)
\* texts of one host part: in range, out of byte range, negative, not a number
OctetTexts ==
    {<<"0">>, <<"1", "2", "7">>, <<"2", "5", "5">>, <<"3", "0", "0">>,
     <<"-", "1">>, <<"x">>}

\* texts after the host: none (no ':'), or ':' and a port text
PortTexts ==
    {<<>>, <<":", "1", "2", "3", "4">>, <<":", "x">>,
     <<":", "7", "0", "0", "0", "0">>}

RECURSIVE JoinDots(_)
JoinDots(octs) ==
    IF Len(octs) = 1 THEN octs[1]
    ELSE octs[1] \o <<".">> \o JoinDots(Tail(octs))

AddressTexts ==
    {ExampleAddress} \cup
    {JoinDots(octs) \o p :
        octs \in UNION {[1..n -> OctetTexts] : n \in 1..MaxOctets},
        p \in PortTexts}

InitAddr ==
    /\ input \in AddressTexts
    /\ stage = "text"
    /\ resolved = ResolvePanic
    /\ sockaddr = NoSockaddr
    /\ decoded = NilAddr
    /\ buf = <<>>
    /\ InitLife

\* ResolveTCPAddr(network, address)
Resolve ==
    /\ stage = "text"
    /\ resolved' = ResolveTCPAddr(input)
    /\ stage' = "resolved"
    /\ UNCHANGED <<input, sockaddr, decoded>>
    /\ UNCHANGED lifeVars
    /\ UNCHANGED extVars

\* the SockaddrIn that ListenTCP / DialTCP build from a resolved address
Encode ==
    /\ stage = "resolved"
    /\ resolved.outcome = "return"
    /\ resolved.err = NoError
    /\ sockaddr' = SockaddrIn(resolved.addr)
    /\ stage' = "encoded"
    /\ UNCHANGED <<input, resolved, decoded>>
    /\ UNCHANGED lifeVars
    /\ UNCHANGED extVars

\* the TCPAddr that AcceptTCP builds from a SockaddrIn
Decode ==
    /\ stage = "encoded"
    /\ decoded' = PeerAddr(sockaddr)
    /\ stage' = "decoded"
    /\ UNCHANGED <<input, resolved, sockaddr>>
    /\ UNCHANGED lifeVars
    /\ UNCHANGED extVars

NextAddr == Resolve \/ Encode \/ Decode

SpecAddr == InitAddr /\ [][NextAddr]_vars

(***************************************************************************)
(* Spec: the lifecycle.  Every action is one call of the layer by some     *)
(* caller, with the provider's outcomes chosen freely among those a socket *)
(* stack can give.                                                         *)
(***************************************************************************)
\* the client addresses the provider's accept fills in (family, port in
\* network byte order, address word): 10.0.0.2:53764 and 127.0.0.1:53764;
\* 53764 is the port whose network-order bytes read as 1234
PeerSockaddrs ==
    {SockaddrIn(TCPAddr(<<>>, ip, 53764)) : ip \in {<<127, 0, 0, 1>>, <<10, 0, 0, 2>>}}

\* the provider's outcomes
SocketErrs == IF nextFd <= MaxFd THEN {NoError, ErrSocket} ELSE {ErrSocket}

AcceptErrs(fd) ==
    IF sock[fd] = "listening" /\ nextFd <= MaxFd THEN {NoError, ErrAccept} ELSE {ErrAccept}

ShutdownErrs(fd) ==
    IF sock[fd] # "free" THEN {NoError, ErrShutdown} ELSE {ErrShutdown}

\* the buffer lengths callers pass to Read and Write
BufLens == {MaxLen}

\* a byte count of Send / Recv for a buffer of lenb bytes, -1 for a failure
ByteCounts(lenb) == (0 - 1)..lenb

\* the values handed out so far
Instances == Len(listeners) + Len(conns)

\* the Close calls followed so far, over all handles
RECURSIVE SumUpTo(_, _)
SumUpTo(f, fd) == IF fd < 0 THEN 0 ELSE f[fd] + SumUpTo(f, fd - 1)

TotalCloses == SumUpTo(closeCalls, MaxFd)

\* the arguments of a call: an address text, a buffer length
Args(a, lenb) == [address |-> a, len |-> lenb]

\* what the provider gave during a call: the handle it issued (0: none), the
\* byte count and the error of its primitives (the first error, if any)
Gave(fd, n, err) == [fd |-> fd, n |-> n, err |-> err]

FirstErr(errs) ==
    IF \E k \in 1..Len(errs) : errs[k] # NoError
    THEN errs[CHOOSE k \in 1..Len(errs) :
                 errs[k] # NoError /\ \A m \in 1..(k - 1) : errs[m] = NoError]
    ELSE NoError

\* the Shutdown calls on handle fd among calls
ShutdownCalls(calls, fd) ==
    Cardinality({k \in 1..Len(calls) : calls[k].op = "Shutdown" /\ calls[k].fd = fd})

\* the record of a call, and the provider counting the Shutdown calls it got
Called(op, who, arg, prov, res) ==
    /\ ret' = [op |-> op, who |-> who, arg |-> arg, prov |-> prov, res |-> res]
    /\ panicked' = (res.outcome = "panic")
    /\ shutdowns' = [fd \in Fds |-> shutdowns[fd] + ShutdownCalls(res.calls, fd)]

\* the provider's handle table after the calls: a Shutdown that succeeded
\* leaves its handle shut down
AfterShutdowns(calls, shutErr) ==
    [fd \in Fds |-> IF ShutdownCalls(calls, fd) > 0 /\ shutErr = NoError
                    THEN "shutdown" ELSE sock[fd]]

Init ==
    /\ input = <<>>
    /\ stage = "idle"
    /\ resolved = ResolvePanic
    /\ sockaddr = NoSockaddr
    /\ decoded = NilAddr
    /\ buf = <<>>
    /\ InitLife

\* Listen(network, address)
ListenCall(a) ==
    /\ ~panicked
    /\ \E sockErr \in SocketErrs, bindErr \in {NoError, ErrBind},
          listenErr \in {NoError, ErrListen} :
          LET res == Listen(a, nextFd, sockErr, bindErr, listenErr)
              issued == Len(res.calls) > 0 /\ sockErr = NoError
          IN  /\ Called("Listen", Len(listeners) + 1, Args(a, 0),
                        Gave(IF issued THEN nextFd ELSE 0, 0,
                             IF Len(res.calls) > 0
                             THEN FirstErr(<<sockErr, bindErr, listenErr>>)
                             ELSE NoError),
                        res)
              /\ listeners' = IF res.outcome = "return"
                              THEN Append(listeners, res.val) ELSE listeners
              /\ nextFd' = IF issued THEN nextFd + 1 ELSE nextFd
              /\ sock' = IF ~issued THEN sock
                         ELSE [sock EXCEPT ![nextFd] =
                                  IF bindErr # NoError THEN "created"
                                  ELSE IF listenErr # NoError THEN "bound"
                                  ELSE "listening"]
    /\ UNCHANGED <<conns, origin, closeCalls>>
    /\ UNCHANGED addrVars

DoListen(a) == ListenCall(a) /\ UNCHANGED extVars

\* Dial(network, address)
DoDial(a) ==
    /\ ~panicked
    /\ \E sockErr \in SocketErrs, connErr \in {NoError, ErrConnect} :
          LET res == Dial(a, nextFd, sockErr, connErr)
              issued == Len(res.calls) > 0 /\ sockErr = NoError
          IN  /\ Called("Dial", Len(conns) + 1, Args(a, 0),
                        Gave(IF issued THEN nextFd ELSE 0, 0,
                             IF Len(res.calls) > 0
                             THEN FirstErr(<<sockErr, connErr>>) ELSE NoError),
                        res)
              /\ conns' = IF res.outcome = "return"
                          THEN Append(conns, res.val) ELSE conns
              /\ origin' = IF res.outcome = "return"
                           THEN Append(origin, [via |-> "Dial", lis |-> 0,
                                                peer |-> NoSockaddr])
                           ELSE origin
              /\ nextFd' = IF issued THEN nextFd + 1 ELSE nextFd
              /\ sock' = IF ~issued THEN sock
                         ELSE [sock EXCEPT ![nextFd] =
                                  IF connErr # NoError THEN "created" ELSE "connected"]
    /\ UNCHANGED <<listeners, closeCalls>>
    /\ UNCHANGED addrVars
    /\ UNCHANGED extVars

\* listeners[i].Accept()
AcceptCall(i) ==
    /\ ~panicked
    /\ \E accErr \in AcceptErrs(listeners[i].fd), clientAddress \in PeerSockaddrs :
          LET res == Accept(listeners[i], nextFd, accErr, clientAddress)
              issued == Len(res.calls) > 0 /\ accErr = NoError
              peer == IF issued THEN clientAddress ELSE NoSockaddr
          IN  /\ Called("Accept", Len(conns) + 1, Args(<<>>, 0),
                        Gave(IF issued THEN nextFd ELSE 0, 0,
                             IF Len(res.calls) > 0 THEN accErr ELSE NoError),
                        res)
              /\ conns' = IF res.outcome = "return"
                          THEN Append(conns, res.val) ELSE conns
              /\ origin' = IF res.outcome = "return"
                           THEN Append(origin, [via |-> "Accept", lis |-> i,
                                                peer |-> peer])
                           ELSE origin
              /\ nextFd' = IF issued THEN nextFd + 1 ELSE nextFd
              /\ sock' = IF issued THEN [sock EXCEPT ![nextFd] = "connected"] ELSE sock
    /\ UNCHANGED <<listeners, closeCalls>>
    /\ UNCHANGED addrVars

DoAccept(i) == AcceptCall(i) /\ UNCHANGED extVars

\* listeners[i].Close()
DoListenerClose(i) ==
    /\ ~panicked
    /\ TotalCloses < MaxCloses
    /\ \E shutErr \in ShutdownErrs(listeners[i].fd) :
          LET res == TCPListenerClose(listeners[i], shutErr)
          IN  /\ Called("Listener.Close", i, Args(<<>>, 0),
                        Gave(0, 0, IF Len(res.calls) > 0 THEN shutErr ELSE NoError), res)
              /\ sock' = AfterShutdowns(res.calls, shutErr)
              /\ closeCalls' = IF res.outcome = "return"
                               THEN [closeCalls EXCEPT ![listeners[i].fd] = @ + 1]
                               ELSE closeCalls
    /\ UNCHANGED <<nextFd, listeners, conns, origin>>
    /\ UNCHANGED addrVars
    /\ UNCHANGED extVars

\* listeners[i].Addr()
DoListenerAddr(i) ==
    /\ ~panicked
    /\ Called("Listener.Addr", i, Args(<<>>, 0), Gave(0, 0, NoError),
              TCPListenerAddr(listeners[i]))
    /\ UNCHANGED <<nextFd, sock, listeners, conns, origin, closeCalls>>
    /\ UNCHANGED addrVars
    /\ UNCHANGED extVars

\* conns[j].Read(b) with len(b) = lenb
ReadCall(j, lenb, n, recvErr) ==
    /\ ~panicked
    /\ LET res == TCPConnRead(conns[j], lenb, n, recvErr)
       IN  Called("Read", j, Args(<<>>, lenb),
                  IF Len(res.calls) > 0 THEN Gave(0, n, recvErr)
                  ELSE Gave(0, 0, NoError),
                  res)
    /\ UNCHANGED <<nextFd, sock, listeners, conns, origin, closeCalls>>
    /\ UNCHANGED addrVars

DoRead(j) ==
    /\ \E lenb \in BufLens, recvErr \in {NoError, ErrRecv} :
          \E n \in ByteCounts(lenb) : ReadCall(j, lenb, n, recvErr)
    /\ UNCHANGED extVars

\* conns[j].Write(b) with len(b) = lenb
WriteCall(j, lenb, n, sendErr) ==
    /\ ~panicked
    /\ LET res == TCPConnWrite(conns[j], lenb, n, sendErr)
       IN  Called("Write", j, Args(<<>>, lenb),
                  IF Len(res.calls) > 0 THEN Gave(0, n, sendErr)
                  ELSE Gave(0, 0, NoError),
                  res)
    /\ UNCHANGED <<nextFd, sock, listeners, conns, origin, closeCalls>>
    /\ UNCHANGED addrVars

DoWrite(j) ==
    /\ \E lenb \in BufLens, sendErr \in {NoError, ErrSend} :
          \E n \in ByteCounts(lenb) : WriteCall(j, lenb, n, sendErr)
    /\ UNCHANGED extVars

\* conns[j].Close()
ConnCloseCall(j) ==
    /\ ~panicked
    /\ \E shutErr \in ShutdownErrs(conns[j].fd) :
          LET res == TCPConnClose(conns[j], shutErr)
          IN  /\ Called("Conn.Close", j, Args(<<>>, 0),
                        Gave(0, 0, IF Len(res.calls) > 0 THEN shutErr ELSE NoError), res)
              /\ sock' = AfterShutdowns(res.calls, shutErr)
              /\ closeCalls' = IF res.outcome = "return"
                               THEN [closeCalls EXCEPT ![conns[j].fd] = @ + 1]
                               ELSE closeCalls
    /\ UNCHANGED <<nextFd, listeners, conns, origin>>
    /\ UNCHANGED addrVars

DoConnClose(j) ==
    /\ TotalCloses < MaxCloses
    /\ ConnCloseCall(j)
    /\ UNCHANGED extVars

\* conns[j].LocalAddr()
DoLocalAddr(j) ==
    /\ ~panicked
    /\ Called("LocalAddr", j, Args(<<>>, 0), Gave(0, 0, NoError), LocalAddr(conns[j]))
    /\ UNCHANGED <<nextFd, sock, listeners, conns, origin, closeCalls>>
    /\ UNCHANGED addrVars
    /\ UNCHANGED extVars

\* conns[j].RemoteAddr()
DoRemoteAddr(j) ==
    /\ ~panicked
    /\ Called("RemoteAddr", j, Args(<<>>, 0), Gave(0, 0, NoError), RemoteAddr(conns[j]))
    /\ UNCHANGED <<nextFd, sock, listeners, conns, origin, closeCalls>>
    /\ UNCHANGED addrVars
    /\ UNCHANGED extVars

\* the calls of Listen, Dial and Accept stop at MaxInstances values handed out
Next ==
    \/ Instances < MaxInstances /\ \E a \in CallAddresses : DoListen(a)
    \/ Instances < MaxInstances /\ \E a \in CallAddresses : DoDial(a)
    \/ Instances < MaxInstances /\ \E i \in 1..Len(listeners) : DoAccept(i)
    \/ \E i \in 1..Len(listeners) : DoListenerClose(i)
    \/ \E i \in 1..Len(listeners) : DoListenerAddr(i)
    \/ \E j \in 1..Len(conns) : DoRead(j)
    \/ \E j \in 1..Len(conns) : DoWrite(j)
    \/ \E j \in 1..Len(conns) : DoConnClose(j)
    \/ \E j \in 1..Len(conns) : DoLocalAddr(j)
    \/ \E j \in 1..Len(conns) : DoRemoteAddr(j)

Spec == Init /\ [][Next]_vars

(***************************************************************************)
(* SpecAccept: one Listen, then Accept calls on its Listener, repeated and *)
(* interleaved with Addr and Close calls on the Listener.                  *)
(***************************************************************************)
NextAccept ==
    \/ Len(listeners) < 1 /\ DoListen(ExampleAddress)
    \/ Len(conns) < MaxAccepts /\ \E i \in 1..Len(listeners) : DoAccept(i)
    \/ \E i \in 1..Len(listeners) : DoListenerAddr(i)
    \/ \E i \in 1..Len(listeners) : DoListenerClose(i)

SpecAccept == Init /\ [][NextAccept]_vars

(***************************************************************************)
(* SpecDeadline: Connections from Dial, on which deadlines are set between *)
(* Read and Write calls.                                                   *)
(***************************************************************************)
\* the time.Time arguments: the zero time, a time that has passed, a time
\* to come
Times == {"zero", "past", "future"}

\* the call of a setter (SetDeadline, SetReadDeadline or SetWriteDeadline)
\* on conns[j] with time t, res being its result
DoSetter(op, j, t, res) ==
    /\ ~panicked
    /\ Called(op, j, [address |-> <<>>, len |-> 0, t |-> t], Gave(0, 0, NoError), res)
    /\ deadlines' = IF res.outcome = "return" /\ t = "past"
                    THEN deadlines \cup {j} ELSE deadlines
    /\ UNCHANGED <<nextFd, sock, listeners, conns, origin, closeCalls, buf, wire>>
    /\ UNCHANGED srvVars
    /\ UNCHANGED addrVars

\* conns[j].SetDeadline(t)
DoSetDeadline(j) ==
    \E t \in Times : DoSetter("SetDeadline", j, t, SetDeadline(conns[j], t))

\* conns[j].SetReadDeadline(t)
DoSetReadDeadline(j) ==
    \E t \in Times : DoSetter("SetReadDeadline", j, t, SetReadDeadline(conns[j], t))

\* conns[j].SetWriteDeadline(t)
DoSetWriteDeadline(j) ==
    \E t \in Times : DoSetter("SetWriteDeadline", j, t, SetWriteDeadline(conns[j], t))

NextDeadline ==
    \/ Instances < MaxInstances /\ \E a \in CallAddresses : DoDial(a)
    \/ \E j \in 1..Len(conns) : DoSetDeadline(j)
    \/ \E j \in 1..Len(conns) : DoSetReadDeadline(j)
    \/ \E j \in 1..Len(conns) : DoSetWriteDeadline(j)
    \/ \E j \in 1..Len(conns) : DoRead(j)
    \/ \E j \in 1..Len(conns) : DoWrite(j)

SpecDeadline == Init /\ [][NextDeadline]_vars

(***************************************************************************)
(* SpecRead: Read calls on the Connections of Dial, with the content of    *)
(* the caller's buffer and the bytes the provider delivers followed.       *)
(***************************************************************************)
\* byte values: the zero of a fresh slice, a low and the highest value
Bytes == {0, 1, 255}

\* the buffers b a caller passes to Read, with whatever they hold
Buffers == UNION {[1..k -> Bytes] : k \in 0..MaxBuf}

\* the bytes that a recv reporting n delivers
Received(n) == IF n <= 0 THEN {<<>>} ELSE [1..n -> Bytes]

InitRead ==
    /\ input = <<>>
    /\ stage = "idle"
    /\ resolved = ResolvePanic
    /\ sockaddr = NoSockaddr
    /\ decoded = NilAddr
    /\ buf \in Buffers
    /\ InitLife

\* conns[j].Read(buf)
DoReadInto(j) ==
    /\ \E recvErr \in {NoError, ErrRecv}, n \in ByteCounts(Len(buf)) :
          \E data \in Received(n) :
              /\ ReadCall(j, Len(buf), n, recvErr)
              /\ buf' = IF ret'.res.outcome = "return"
                        THEN ReadBuffer(buf, n, recvErr, data) ELSE buf
              /\ wire' = IF ret'.res.outcome = "return" THEN data ELSE <<>>
    /\ UNCHANGED deadlines
    /\ UNCHANGED srvVars

NextRead ==
    \/ Instances < MaxInstances /\ DoDial(ExampleAddress)
    \/ \E j \in 1..Len(conns) : DoReadInto(j)

SpecRead == InitRead /\ [][NextRead]_vars

(***************************************************************************)
(* SpecEcho: the echo server of cmd/net_echo_server.  main listens on      *)
(* LADDR and accepts in a loop, starting one goroutine per Conn; each      *)
(* goroutine reads and writes in a loop and closes its Conn when it leaves *)
(* the loop.  os.Exit(1) in main ends the process, goroutines included.    *)
(***************************************************************************)
\* BUFLEN, the length of the buffer of every Read
BUFLEN == 1024

\* the text before %v in fmt.Sprintf("You've sent: %v", string(buf))
EchoPrefix ==
    <<"Y", "o", "u", "'", "v", "e", " ", "s", "e", "n", "t", ":", " ">>

\* len(out): the prefix and the whole buffer, whatever Read put into it
OutLen == Len(EchoPrefix) + BUFLEN

\* the byte counts of Recv / Send that the server is run against: a
\* failure, nothing, one byte, the whole buffer
ServerCounts(lenb) == {0 - 1, 0, 1, lenb}

\* the goroutine started for conns[j]: go func(innerConn net.Conn) {...}(conn)
Handler(j) == [pc |-> "read", innerConn |-> j, observed |-> FALSE]

\* a goroutine using main's variable conn
HandlerConnShared(k) == mainConn

\* the Conn that goroutine k works on: its parameter innerConn
HandlerConn(k) == handlers[k].innerConn

\* a goroutine that leaves its loop on a 0-byte result only
AfterReadOnZero(n, err) == IF err # NoError /\ n = 0 THEN "close" ELSE "write"

\* where a goroutine goes after Read returned (n, err): out of the loop on
\* any error, with or without the message, otherwise on to Write
AfterRead(n, err) == IF err # NoError THEN "close" ELSE "write"

\* where a goroutine goes after Write returned (n, err)
AfterWrite(n, err) == IF err # NoError THEN "close" ELSE "read"

\* what goroutine k has seen: an error or a 0-byte result
Observes(k, res) ==
    [handlers EXCEPT ![k].observed = @ \/ res.err # NoError \/ res.n = 0]

\* lis, err := tinynet.Listen("tcp", LADDR); os.Exit(1) on an error
MainListen ==
    /\ mainpc = "listen"
    /\ ListenCall(ExampleAddress)
    /\ mainpc' = IF ret'.res.outcome = "return" /\ ret'.res.err = NoError
                 THEN "accept" ELSE "exited"
    /\ UNCHANGED <<mainConn, handlers, users>>
    /\ UNCHANGED <<deadlines, buf, wire>>

\* conn, err := lis.Accept(); os.Exit(1) on an error, otherwise go func
MainAccept ==
    /\ mainpc = "accept"
    /\ AcceptCall(1)
    /\ LET ok == ret'.res.outcome = "return" /\ ret'.res.err = NoError
       IN  /\ mainpc' = IF ok THEN "accept" ELSE "exited"
           /\ mainConn' = IF ok THEN ret'.who ELSE mainConn
           /\ handlers' = IF ok THEN Append(handlers, Handler(ret'.who)) ELSE handlers
           /\ users' = IF ret'.res.outcome = "return" THEN Append(users, {}) ELSE users
    /\ UNCHANGED <<deadlines, buf, wire>>

\* goroutine k: buf := make([]byte, BUFLEN); n, err := innerConn.Read(buf)
HandlerRead(k) ==
    /\ mainpc # "exited"
    /\ handlers[k].pc = "read"
    /\ \E recvErr \in {NoError, ErrRecv}, n \in ServerCounts(BUFLEN) :
          /\ ReadCall(HandlerConn(k), BUFLEN, n, recvErr)
          /\ handlers' = [Observes(k, ret'.res) EXCEPT
                             ![k].pc = AfterRead(ret'.res.n, ret'.res.err)]
    /\ users' = [users EXCEPT ![HandlerConn(k)] = @ \cup {k}]
    /\ UNCHANGED <<mainpc, mainConn>>
    /\ UNCHANGED <<deadlines, buf, wire>>

\* goroutine k: n, err := innerConn.Write(out)
HandlerWrite(k) ==
    /\ mainpc # "exited"
    /\ handlers[k].pc = "write"
    /\ \E sendErr \in {NoError, ErrSend}, n \in ServerCounts(OutLen) :
          /\ WriteCall(HandlerConn(k), OutLen, n, sendErr)
          /\ handlers' = [Observes(k, ret'.res) EXCEPT
                             ![k].pc = AfterWrite(ret'.res.n, ret'.res.err)]
    /\ users' = [users EXCEPT ![HandlerConn(k)] = @ \cup {k}]
    /\ UNCHANGED <<mainpc, mainConn>>
    /\ UNCHANGED <<deadlines, buf, wire>>

\* goroutine k, out of its loop: innerConn.Close(); return
HandlerClose(k) ==
    /\ mainpc # "exited"
    /\ handlers[k].pc = "close"
    /\ ConnCloseCall(HandlerConn(k))
    /\ handlers' = [handlers EXCEPT ![k].pc = "done"]
    /\ users' = [users EXCEPT ![HandlerConn(k)] = @ \cup {k}]
    /\ UNCHANGED <<mainpc, mainConn>>
    /\ UNCHANGED <<deadlines, buf, wire>>

\* the accepts stop at MaxAccepts Conns
NextEcho ==
    \/ MainListen
    \/ Len(conns) < MaxAccepts /\ MainAccept
    \/ \E k \in 1..Len(handlers) : HandlerRead(k)
    \/ \E k \in 1..Len(handlers) : HandlerWrite(k)
    \/ \E k \in 1..Len(handlers) : HandlerClose(k)

SpecEcho == Init /\ [][NextEcho]_vars

\* a goroutine that has left its loop is scheduled and its Close returns;
\* Read, Write and Accept may block for ever
CloseStep(k) == k \in 1..Len(handlers) /\ HandlerClose(k)

FairEcho == SpecEcho /\ \A k \in 1..MaxAccepts : WF_vars(CloseStep(k))

(***************************************************************************)
(* Properties of the address pipeline (checked under SpecAddr).            *)
(***************************************************************************)
\* a non-empty run of decimal digits
IsDecimal(s) == Len(s) > 0 /\ \A i \in 1..Len(s) : IsDigit(s[i])

\* a decimal number with an optional sign
IsNumeral(s) ==
    \/ IsDecimal(s)
    \/ Len(s) > 1 /\ s[1] \in {"-", "+"} /\ IsDecimal(Tail(s))

\* the value of a run of decimal digits, from its last digit
RECURSIVE DecimalValue(_)
DecimalValue(s) ==
    IF Len(s) = 0 THEN 0
    ELSE DecimalValue(SubSeq(s, 1, Len(s) - 1)) * 10 + DigitVal(s[Len(s)])

HasColon(a) == \E i \in 1..Len(a) : a[i] = ":"

HostParts(a) == Split(Split(a, ":")[1], ".")

PortText(a) == Split(a, ":")[2]

\* an octet text that is a number of 0..255
IsByteText(s) == IsDecimal(s) /\ DecimalValue(s) <= 255

\* an octet text that is a number outside 0..255
IsOutOfRangeText(s) ==
    /\ IsNumeral(s)
    /\ \/ s[1] = "-" /\ DecimalValue(Tail(s)) > 0
       \/ s[1] # "-" /\ DecimalValue(IF s[1] = "+" THEN Tail(s) ELSE s) > 255

\* "a.b.c.d:p" with a, b, c, d decimal in 0..255 and p decimal
WellFormed(a) ==
    /\ Len(Split(a, ":")) = 2
    /\ Len(HostParts(a)) = 4
    /\ \A i \in 1..4 : IsByteText(HostParts(a)[i])
    /\ IsDecimal(PortText(a))

\* the malformed addresses of the spec: no ':', a non-numeric octet, a
\* non-numeric port, or a host part that is not 4 octets
Malformed(a) ==
    \/ ~HasColon(a)
    \/ \E i \in 1..Len(HostParts(a)) : ~IsNumeral(HostParts(a)[i])
    \/ HasColon(a) /\ ~IsNumeral(PortText(a))
    \/ Len(HostParts(a)) # 4

\* C1: for every valid "a.b.c.d:p" (octets in 0..255, p in 0..65535), the
\* address decoded from the encoded resolved address has the same IP bytes
\* and the same port as the resolved address.
C1_RoundTripLossless ==
    (stage = "decoded" /\ WellFormed(input) /\ DecimalValue(PortText(input)) <= 65535)
        => /\ decoded.IP = resolved.addr.IP
           /\ decoded.Port = resolved.addr.Port

\* C2: for every malformed address ResolveTCPAddr returns (does not panic)
\* an error and a nil address.
C2_MalformedFails ==
    (stage # "text" /\ Malformed(input))
        => /\ resolved.outcome = "return"
           /\ resolved.err # NoError
           /\ resolved.addr = NilAddr

\* C3: whenever an octet of the host part is a number outside 0..255 and
\* ResolveTCPAddr returns, it returns a parse error and no address (it never
\* returns an address holding the octet modulo 256).
C3_OutOfRangeOctetFails ==
    (/\ stage # "text"
     /\ resolved.outcome = "return"
     /\ \E i \in 1..Len(HostParts(input)) : IsOutOfRangeText(HostParts(input)[i]))
        => /\ resolved.err \in {ErrParseIP, ErrParsePort}
           /\ resolved.addr = NilAddr

\* C4: for every well-formed "a.b.c.d:p" ResolveTCPAddr returns no error and
\* an address whose IP is <<a, b, c, d>> in textual order, whose Port is p
\* and whose String() is the input text; "127.0.0.1:1234" gives
\* <<127, 0, 0, 1>> and 1234.
C4_WellFormedResolves ==
    /\ (stage # "text" /\ WellFormed(input))
            => /\ resolved.outcome = "return"
               /\ resolved.err = NoError
               /\ resolved.addr.isNil = FALSE
               /\ resolved.addr.IP = [i \in 1..4 |-> DecimalValue(HostParts(input)[i])]
               /\ resolved.addr.Port = DecimalValue(PortText(input))
               /\ String(resolved.addr) = input
    /\ (stage # "text" /\ input = ExampleAddress)
            => /\ resolved.addr.IP = <<127, 0, 0, 1>>
               /\ resolved.addr.Port = 1234

\* C4 witness: a well-formed address with distinct octets has been resolved
C4_Witness ==
    /\ stage = "resolved"
    /\ WellFormed(input)
    /\ input = <<"1", "2", "7", ".", "0", ".", "2", "5", "5", ".", "0",
                   ":", "7", "0", "0", "0", "0">>
    /\ resolved.err = NoError

(***************************************************************************)
(* Properties of the lifecycle (checked under Spec).                       *)
(***************************************************************************)
\* the instance the last call was made on
Target ==
    IF ret.op \in {"Listener.Close", "Listener.Addr"} THEN listeners[ret.who]
    ELSE conns[ret.who]

\* the connections that a successful Accept produced
Accepted == {j \in 1..Len(conns) : origin[j].via = "Accept" /\ ~conns[j].isNil}

\* C5: for every Connection produced by Accept, RemoteAddr() returns the
\* peer address decoded from the provider's accept output and LocalAddr()
\* returns the Listener's bound address (IP and port).
C5_AcceptedAddrs ==
    \A j \in Accepted :
        /\ (ret.op = "RemoteAddr" /\ ret.who = j)
               => ret.res.val = PeerAddr(origin[j].peer)
        /\ (ret.op = "LocalAddr" /\ ret.who = j)
               => /\ ret.res.val.IP = listeners[origin[j].lis].addr.IP
                  /\ ret.res.val.Port = listeners[origin[j].lis].addr.Port

\* C6: whenever the provider's recv reports 0 bytes, Read returns 0 and the
\* disconnection error, whatever error recv gave; Read never returns (0, nil).
C6_ReadZeroDisconnects ==
    (ret.op = "Read" /\ ~Target.isNil)
        => /\ ret.res.outcome = "return"
           /\ ret.prov.n = 0 => (ret.res.n = 0 /\ ret.res.err = ErrDisconnected)
           /\ ~(ret.res.n = 0 /\ ret.res.err = NoError)

\* C6 witness: recv reported 0 bytes and no error, and Read was called
C6_Witness ==
    /\ ret.op = "Read"
    /\ ~Target.isNil
    /\ ret.prov.n = 0
    /\ ret.prov.err = NoError
    /\ ret.res.err = ErrDisconnected

\* C7: Write makes exactly one Send call, on the connection's handle with
\* the caller's buffer; when Send reports 0 bytes Write returns 0 and the
\* disconnection error, otherwise Send's count and Send's error unchanged;
\* Write never returns (0, nil).
C7_WriteForwardsOnce ==
    (ret.op = "Write" /\ ~Target.isNil)
        => /\ ret.res.outcome = "return"
           /\ ret.res.calls = <<CallSend(Target.fd, ret.arg.len)>>
           /\ IF ret.prov.n = 0
              THEN ret.res.n = 0 /\ ret.res.err = ErrDisconnected
              ELSE ret.res.n = ret.prov.n /\ ret.res.err = ret.prov.err
           /\ ~(ret.res.n = 0 /\ ret.res.err = NoError)

\* C7 witness: Send reported 0 bytes and no error, and Write was called
C7_Witness ==
    /\ ret.op = "Write"
    /\ ~Target.isNil
    /\ ret.prov.n = 0
    /\ ret.prov.err = NoError
    /\ ret.res.n = 0
    /\ ret.res.err = ErrDisconnected

\* C8: when Listen returns an error (from the resolution, or from the
\* provider's socket, bind or listen) it returns no Listener value: the
\* net.Listener it hands back is nil.
C8_FailedListenGivesNoListener ==
    (ret.op = "Listen" /\ ret.res.outcome = "return" /\ ret.res.err # NoError)
        => ret.res.val = NoValue

\* C9: when Dial succeeds it returns a Connection on the handle the provider
\* issued, with no local address and the resolved address as remote address;
\* when it fails it returns the error and no Connection value.
C9_DialResult ==
    (ret.op = "Dial" /\ ret.res.outcome = "return")
        => IF ret.res.err = NoError
           THEN /\ ~ret.res.val.isNil
                /\ ret.prov.fd # 0
                /\ ret.res.val.fd = ret.prov.fd
                /\ ret.res.val.laddr = NilAddr
                /\ ret.res.val.raddr = ResolveTCPAddr(ret.arg.address).addr
           ELSE ret.res.val = NoValue

\* the handles that the provider issued and a handed-out instance holds
HeldHandles ==
    {listeners[i].fd : i \in {k \in 1..Len(listeners) : ~listeners[k].isNil}}
        \cup {conns[j].fd : j \in {k \in 1..Len(conns) : ~conns[k].isNil}}

\* C10 as claimed: over any sequence of calls on one Listener or Connection,
\* the provider's shutdown is invoked on its handle at most once (a second
\* Close does not shut the handle down again).
C10_ShutdownAtMostOnce ==
    \A fd \in HeldHandles \ {0} : shutdowns[fd] <= 1

\* C10 as amended: the provider's shutdown is invoked on a handle once for
\* every Close call made on the instance holding it, by that call, with
\* SHUT_RDWR, and by no other call of the layer; a second Close shuts the
\* handle down a second time.
C10_ShutdownOncePerClose ==
    /\ \A fd \in Fds : shutdowns[fd] = closeCalls[fd]
    /\ (ret.op \in {"Listener.Close", "Conn.Close"} /\ ret.res.outcome = "return")
           => ret.res.calls = <<CallShutdown(Target.fd, "SHUT_RDWR")>>
    /\ ret.op \notin {"Listener.Close", "Conn.Close"}
           => \A fd \in Fds : ShutdownCalls(ret.res.calls, fd) = 0

\* C10 witness: Close was called twice on the one instance holding an issued
\* handle, and the provider got two shutdowns of it
C10_Witness ==
    \E fd \in HeldHandles \ {0} :
        /\ closeCalls[fd] = 2
        /\ shutdowns[fd] = 2
        /\ ret.op \in {"Listener.Close", "Conn.Close"}
        /\ Target.fd = fd

\* C11: a Close call on a Listener or Connection, already closed or not,
\* never panics: it makes exactly one provider call, the shutdown of its
\* handle with SHUT_RDWR, and returns the provider's result as its error,
\* also when the provider reports an error for a repeated shutdown.
C11_CloseNeverPanics ==
    (ret.op \in {"Listener.Close", "Conn.Close"} /\ ~Target.isNil)
        => /\ ~panicked
           /\ ret.res.outcome = "return"
           /\ ret.res.calls = <<CallShutdown(Target.fd, "SHUT_RDWR")>>
           /\ ret.res.err = ret.prov.err

\* C11 witness: a Listener whose handle a first Close shut down was closed
\* again, the provider reported an error, and Close returned that error
C11_Witness ==
    /\ ret.op = "Listener.Close"
    /\ ~Target.isNil
    /\ Target.fd # 0
    /\ closeCalls[Target.fd] = 2
    /\ sock[Target.fd] = "shutdown"
    /\ ret.prov.err = ErrShutdown
    /\ ret.res.err = ErrShutdown
    /\ ~panicked

(***************************************************************************)
(* Properties of Accept (checked under SpecAccept).                        *)
(***************************************************************************)
\* the result of an Accept call on listener l: on success one Conn on the
\* handle the provider's accept issued, on failure the provider's error and
\* a nil Conn pointer; one provider call, the accept on l's handle
AcceptResultOf(l, r) ==
    /\ r.res.outcome = "return"
    /\ r.res.calls = <<CallAccept(l.fd)>>
    /\ r.res.err = r.prov.err
    /\ IF r.prov.err = NoError
       THEN /\ ~r.res.val.isNil
            /\ r.prov.fd # 0
            /\ r.res.val.fd = r.prov.fd
            /\ r.res.val.fd # l.fd
       ELSE r.res.val.isNil

\* C12: every Accept call on a Listener, first, repeated or interleaved
\* with other calls, leaves every Listener as it was (handle and address)
\* and hands out one value: on success a new Connection on the handle the
\* provider's accept returned, on failure the provider's error and no
\* Connection; the Connections handed out before are left as they were.
\* (Accept panics only through a nil Listener pointer, the product of a
\* failed Listen.)
C12_AcceptFrame ==
    [][ret'.op = "Accept"
          => /\ listeners' = listeners
             /\ SubSeq(conns', 1, Len(conns)) = conns
             /\ IF ret'.res.outcome = "panic"
                THEN /\ conns' = conns
                     /\ \E i \in 1..Len(listeners) : listeners[i].isNil
                ELSE /\ ret'.who = Len(conns) + 1
                     /\ Len(conns') = Len(conns) + 1
                     /\ conns'[ret'.who] = ret'.res.val
                     /\ ~listeners[origin'[ret'.who].lis].isNil
                     /\ AcceptResultOf(listeners[origin'[ret'.who].lis], ret')]_vars

\* C12 witness: on one Listener an Accept succeeded, the next one failed and
\* a third one succeeded, giving two Connections on two handles, and the
\* Listener still holds its handle and its address
C12_Witness ==
    /\ ret.op = "Accept"
    /\ ret.res.err = NoError
    /\ Len(conns) = 3
    /\ ~conns[1].isNil /\ conns[2].isNil /\ ~conns[3].isNil
    /\ origin[1].lis = origin[3].lis
    /\ conns[1].fd # conns[3].fd
    /\ listeners[origin[3].lis].fd = 1
    /\ listeners[origin[3].lis].addr = ResolveTCPAddr(ExampleAddress).addr

(***************************************************************************)
(* Properties of the handles (checked under Spec).                         *)
(***************************************************************************)
\* the Listener and Conn values handed to callers (a nil pointer is no value)
ListenerValues == {i \in 1..Len(listeners) : ~listeners[i].isNil}

ConnValues == {j \in 1..Len(conns) : ~conns[j].isNil}

\* the handles the provider has issued so far
IssuedHandles == 1..(nextFd - 1)

\* C13: in every reachable state no two Listener / Connection values handed
\* to callers hold the same handle, and each holds a handle that the
\* provider issued (in the call that produced the value).
C13_NoSharedHandles ==
    /\ \A i \in ListenerValues : listeners[i].fd \in IssuedHandles
    /\ \A j \in ConnValues : conns[j].fd \in IssuedHandles
    /\ \A i, k \in ListenerValues : i # k => listeners[i].fd # listeners[k].fd
    /\ \A j, k \in ConnValues : j # k => conns[j].fd # conns[k].fd
    /\ \A i \in ListenerValues, j \in ConnValues : listeners[i].fd # conns[j].fd
    /\ (ret.op \in {"Listen", "Dial", "Accept"} /\ ~ret.res.val.isNil)
           => ret.res.val.fd = ret.prov.fd

(***************************************************************************)
(* Properties of the provider calls of Listen and Dial (under Spec).       *)
(***************************************************************************)
\* the first k elements of a sequence
Prefix(seq, k) == SubSeq(seq, 1, k)

\* the provider calls that a Listen and a Dial of a resolved address make
\* when nothing fails, on the handle fd that createSocket issues
ListenOrder(addr, fd) ==
    <<CallSocket, CallBind(fd, SockaddrIn(addr)), CallListen(fd, 5)>>

DialOrder(addr, fd) == <<CallSocket, CallConnect(fd, SockaddrIn(addr))>>

\* C16: a Listen call invokes createSocket, bind (with the encoded address)
\* and listen (with backlog 5) in this order, a Dial call createSocket and
\* connect, each at most once; the calls stop at the first one that fails
\* and its error is the error returned; a call whose address does not
\* resolve invokes none.
C16_ProviderCallOrder ==
    /\ (ret.op = "Listen" /\ ret.res.outcome = "return")
           => LET r == ResolveTCPAddr(ret.arg.address)
                  full == ListenOrder(r.addr, ret.prov.fd)
              IN  IF r.err # NoError THEN ret.res.calls = <<>> /\ ret.res.err = r.err
                  ELSE /\ ret.res.err = ret.prov.err
                       /\ ret.res.calls =
                              Prefix(full, CASE ret.prov.err = ErrSocket -> 1
                                             [] ret.prov.err = ErrBind -> 2
                                             [] OTHER -> 3)
    /\ (ret.op = "Dial" /\ ret.res.outcome = "return")
           => LET r == ResolveTCPAddr(ret.arg.address)
                  full == DialOrder(r.addr, ret.prov.fd)
              IN  IF r.err # NoError THEN ret.res.calls = <<>> /\ ret.res.err = r.err
                  ELSE /\ ret.res.err = ret.prov.err
                       /\ ret.res.calls =
                              Prefix(full, IF ret.prov.err = ErrSocket THEN 1 ELSE 2)

\* C16 witness: a Listen whose bind failed made the calls createSocket and
\* bind, no listen, and returned the error of bind
C16_Witness ==
    /\ ret.op = "Listen"
    /\ ret.prov.err = ErrBind
    /\ ret.res.err = ErrBind
    /\ Len(ret.res.calls) = 2
    /\ ret.res.calls[2].op = "Bind"
    /\ ret.res.calls[2].fd = ret.prov.fd
    /\ ret.prov.fd # 0

\* C17: after a Listen or Dial call has returned, every handle that the
\* provider issued is held by a Listener or Connection value handed to a
\* caller or has been shut down by the layer: a failed bind, listen or
\* connect leaves no open handle that no caller can Close.
C17_NoLeakedHandle ==
    \A fd \in IssuedHandles : fd \in HeldHandles \/ shutdowns[fd] > 0

(***************************************************************************)
(* Properties of the disconnection signal (under Spec).                    *)
(***************************************************************************)
\* the one provider call of a Read or Write call r on connection c
Forwarded(c, r) ==
    r.res.calls = <<IF r.op = "Read" THEN CallRecv(c.fd, r.arg.len)
                    ELSE CallSend(c.fd, r.arg.len)>>

\* C18: a Read or Write call that returns the 0-byte disconnection error
\* leaves the Connection (handle, addresses) and the provider's handle as
\* they were and invokes no shutdown; every Read or Write call, also one
\* made after the Connection gave the disconnection error, is forwarded to
\* the provider on the Connection's handle.
C18_DisconnectKeepsObject ==
    [][(ret'.op \in {"Read", "Write"} /\ ~conns[ret'.who].isNil)
          => /\ Forwarded(conns[ret'.who], ret')
             /\ ret'.res.err = ErrDisconnected
                   => /\ conns' = conns
                      /\ sock' = sock
                      /\ shutdowns' = shutdowns
                      /\ closeCalls' = closeCalls
             /\ (ret.op \in {"Read", "Write"} /\ ret.who = ret'.who
                   /\ ret.res.err = ErrDisconnected)
                   => /\ ret'.res.calls[1].fd = ret.res.calls[1].fd
                      /\ ret'.res.n = ret'.prov.n]_vars

\* C18 witness: Write returned the disconnection error on a connected
\* handle, which is still connected, held by the Connection and not shut down
C18_Witness ==
    /\ ret.op = "Write"
    /\ ret.res.err = ErrDisconnected
    /\ ret.res.n = 0
    /\ ~conns[ret.who].isNil
    /\ conns[ret.who].fd # 0
    /\ sock[conns[ret.who].fd] = "connected"
    /\ shutdowns[conns[ret.who].fd] = 0

(***************************************************************************)
(* Properties of the deadline setters (under SpecDeadline).                *)
(***************************************************************************)
Setters == {"SetDeadline", "SetReadDeadline", "SetWriteDeadline"}

\* C15: every deadline-setter call on a Connection returns nil and invokes
\* no provider primitive, and leaves the Connection (handle, addresses) and
\* the provider's handles as they were; a Read or Write call made after a
\* deadline that has passed was set makes its one provider call and returns what the
\* provider's outcome determines (the count, and the provider's error or
\* the disconnection error), never a timeout.
C15_DeadlinesAreNoOps ==
    [][/\ (ret'.op \in Setters /\ ~conns[ret'.who].isNil)
            => /\ ret'.res.outcome = "return"
               /\ ret'.res.err = NoError
               /\ ret'.res.calls = <<>>
               /\ conns' = conns
               /\ sock' = sock
               /\ shutdowns' = shutdowns
               /\ nextFd' = nextFd
       /\ (ret'.op \in {"Read", "Write"} /\ ~conns[ret'.who].isNil
             /\ ret'.who \in deadlines)
            => /\ Forwarded(conns[ret'.who], ret')
               /\ ret'.res.n = ret'.prov.n
               /\ ret'.res.err = IF ret'.prov.n = 0 THEN ErrDisconnected
                                 ELSE ret'.prov.err]_vars

\* C15 witness: after a setter called with a time that has passed returned
\* nil on a connected Connection, a Read on that Connection returned the
\* provider's byte count and no error
C15_Witness ==
    /\ ret.op = "Read"
    /\ ~conns[ret.who].isNil
    /\ sock[conns[ret.who].fd] = "connected"
    /\ ret.who \in deadlines
    /\ ret.res.n = 1
    /\ ret.res.err = NoError

(***************************************************************************)
(* Properties of the buffer of Read (under SpecRead).                      *)
(***************************************************************************)
\* C19: a Read call makes one recv call, asking for len(b) bytes; when recv
\* reports n > 0 delivered bytes (n <= len(b)), the first n bytes of b are
\* the bytes delivered, the count returned is n and the error returned is
\* recv's error; when recv reports 0 bytes, b is as it was before the call.
C19_ReadFillsBuffer ==
    [][(ret'.op = "Read" /\ ~conns[ret'.who].isNil)
          => /\ ret'.res.calls = <<CallRecv(conns[ret'.who].fd, Len(buf))>>
             /\ Len(buf') = Len(buf)
             /\ ret'.prov.n > 0
                   => /\ ret'.res.n = ret'.prov.n
                      /\ ret'.res.n <= Len(buf)
                      /\ ret'.res.err = ret'.prov.err
                      /\ Len(wire') = ret'.prov.n
                      /\ SubSeq(buf', 1, ret'.res.n) = wire'
             /\ ret'.prov.n = 0 => buf' = buf]_vars

\* C19 witness: a Read into a buffer of two bytes, to which recv delivered
\* the one byte 255, returned 1 and left that byte first in the buffer
C19_Witness ==
    /\ ret.op = "Read"
    /\ ~conns[ret.who].isNil
    /\ ret.arg.len = 2
    /\ ret.prov.n = 1
    /\ ret.res.n = 1
    /\ wire = <<255>>
    /\ buf[1] = 255

(***************************************************************************)
(* Properties of the echo server (under FairEcho and SpecEcho).            *)
(***************************************************************************)
\* the Close calls made on the Conn of goroutine k
Closes(k) == closeCalls[conns[handlers[k].innerConn].fd]

\* the last call was made by main and failed
FatalCall == ret.op \in {"Listen", "Accept"} /\ ret.res.err # NoError

\* goroutine k has stopped serving, main is not touched by the goroutines,
\* and only a failed Listen or Accept ends the process
StopsServing ==
    /\ \A k \in 1..Len(handlers) :
          /\ handlers[k].observed => handlers[k].pc \in {"close", "done"}
          /\ Closes(k) <= 1
          /\ handlers[k].pc = "done" => handlers[k].observed /\ Closes(k) = 1
    /\ ~panicked
    /\ mainpc = "exited" => FatalCall

\* C14 as claimed: every goroutine that has observed an error or a 0-byte
\* result stops serving its Conn and calls Close on it exactly once: when
\* the run is over for the goroutine (it returned, or the process ended),
\* its Conn has been closed once.
C14_HandlerClosesOnce ==
    /\ StopsServing
    /\ \A k \in 1..Len(handlers) :
          (handlers[k].observed /\ (handlers[k].pc = "done" \/ mainpc = "exited"))
              => Closes(k) = 1

\* C14 as amended: a goroutine that has observed an error or a 0-byte
\* result makes no further Read or Write on its Conn, and calls Close on
\* it once, never twice, unless a failed Accept ends the process before
\* the Close; the steps of the goroutines leave main where it is, and only
\* a failed Listen or a failed Accept ends the process.
C14_HandlerClosesOnceUnlessExit ==
    /\ []StopsServing
    /\ [][/\ \A k \in 1..Len(handlers) :
              (handlers[k].observed /\ ret'.op \in {"Read", "Write"} /\ ret' # ret)
                  => ret'.who # handlers[k].innerConn
          /\ handlers' # handlers /\ Len(handlers') = Len(handlers)
                  => mainpc' = mainpc]_vars
    /\ \A k \in 1..MaxAccepts :
          (k \in 1..Len(handlers) /\ handlers[k].observed)
              ~> \/ mainpc = "exited"
                 \/ /\ k \in 1..Len(handlers)
                    /\ handlers[k].pc = "done"
                    /\ Closes(k) = 1

\* C14 witness: the first goroutine read 0 bytes, closed its Conn once and
\* returned, while main is in its accept loop and a second goroutine serves
C14_Witness ==
    /\ Len(handlers) = 2
    /\ handlers[1].observed
    /\ handlers[1].pc = "done"
    /\ Closes(1) = 1
    /\ mainpc = "accept"
    /\ handlers[2].pc = "write"
    /\ ~handlers[2].observed

\* main can accept a connection now
MainAcceptsOne == MainAccept /\ ret'.res.err = NoError

\* C20: every Conn that Accept gave has exactly one goroutine, started
\* with it; the methods of a Conn are called by its own goroutine only;
\* and whatever the goroutines are doing, blocked in Read or Write or not,
\* main in its accept loop can accept the next connection the provider has.
C20_OneHandlerPerConn ==
    /\ \A j \in ConnValues :
          Cardinality({k \in 1..Len(handlers) : handlers[k].innerConn = j}) = 1
    /\ \A k \in 1..Len(handlers) : handlers[k].innerConn \in ConnValues
    /\ \A j \in 1..Len(users) :
          /\ Cardinality(users[j]) <= 1
          /\ \A k \in users[j] : handlers[k].innerConn = j
    /\ (mainpc = "accept" /\ Len(conns) < MaxAccepts /\ nextFd <= MaxFd
           /\ sock[listeners[1].fd] = "listening")
          => ENABLED MainAcceptsOne

\* C20 witness: main accepted a second connection while the first goroutine
\* has not come back from its first Read, and the second goroutine has
\* since read and written on its own Conn
C20_Witness ==
    /\ Len(handlers) = 2
    /\ handlers[1].pc = "read"
    /\ users[1] = {}
    /\ users[2] = {2}
    /\ handlers[2].pc = "read"
    /\ ret.op = "Write"
    /\ ret.who = 2
    /\ mainpc = "accept"

=============================================================================
